---- MODULE Spec2Model ----
(***************************************************************************)
(* Model of elos_google_search_mcp/server.py: the credential resolver      *)
(* get_google_credentials, the three search tools google_search,           *)
(* google_search_web, google_search_images and the health tool             *)
(* get_search_health.                                                      *)
(*                                                                         *)
(* Conventions.                                                            *)
(*  - An optional string (the value of os.getenv) is a sequence of length  *)
(*    at most one: <<>> is None, <<"v">> is the string "v".                *)
(*  - A message is the sequence of the segments whose concatenation is the *)
(*    text, so that "starts with" and "mentions" are observable.           *)
(*  - A mapping (a Python dict) is a function on a set of strings.         *)
(*  - The libraries (os.path.exists, service_account, google.auth.default, *)
(*    build, list(...).execute()) are the environment: each of their calls *)
(*    has a nondeterministic outcome, a value or a raised exception.       *)
(***************************************************************************)
EXTENDS Integers, Sequences, FiniteSets, TLC

\* ---- bounds of the model ----------------------------------------------
\* longest items list a response of the remote endpoint carries
MaxItems == 11
\* largest num_results of the contiguous range of requests
MaxRequested == 12

\* ---- program constants --------------------------------------------------
\* num=min(num_results, 10) in google_search
MaxGeneral == 10
\* num=min(num_results, 5) in google_search_web and google_search_images
MaxWebImage == 5

SearchTools == {"general", "web", "image"}

\* ---- optional values and Python truthiness ------------------------------
None == <<>>
Some(s) == <<s>>
\* `if v:` for v an Optional[str]: None and "" are falsy
Truthy(v) == v # None /\ v[1] # ""
\* bool(v)
Bool(v) == Truthy(v)

EmptyMapping == [k \in {} |-> ""]

\* dict.get(key, default)
Get(d, key, default) == IF key \in DOMAIN d THEN d[key] ELSE default

Min(a, b) == IF a <= b THEN a ELSE b

\* ---- inputs --------------------------------------------------------------
PathValues == {None, Some(""), Some("/etc/sa.json")}
KeyValues == {None, Some(""), Some("key-A"), Some("key-B")}
CseValues == {None, Some(""), Some("cx-1")}
Queries == {"cats"}
NumResultsValues == (-1 .. MaxRequested) \cup {100}

\* an outcome of a library call: a value, or a raised exception of a class
\* with the text str(e)
Ok == [ok |-> TRUE, class |-> "", text |-> ""]
Raised(c, t) == [ok |-> FALSE, class |-> c, text |-> t]

LoadOutcomes == {Ok, Raised("ValueError", "malformed key file")}
DiscoveryOutcomes == {Ok, Raised("DefaultCredentialsError", "no ADC"),
                      Raised("TransportError", "metadata server down")}
BuildOutcomes == {Ok, Raised("HttpError", "HttpError 503 discovery"),
                  Raised("UnknownApiNameOrVersion", "name: customsearch")}
CallFailures == {Raised("HttpError", "HttpError 403 quota"),
                 Raised("TimeoutError", "timed out")}

\* items of a response; a field may be missing
ItemPool ==
    { [title |-> "T1", link |-> "L1", snippet |-> "S1"],
      [title |-> "T2", link |-> "L2", image |-> [contextLink |-> "C2"]],
      [link |-> "L3"],
      EmptyMapping }

UniformItems(n) == [i \in 1..n |-> [title |-> "T1", link |-> "L1", snippet |-> "S1"]]

ItemLists ==
    {<<>>} \cup {<<a>> : a \in ItemPool}
           \cup {<<a, b>> : a \in ItemPool, b \in ItemPool}
           \cup {UniformItems(n) : n \in 3..MaxItems}

\* the JSON body of a response: with or without an "items" field
Responses == {[hasItems |-> FALSE, items |-> <<>>]}
             \cup {[hasItems |-> TRUE, items |-> l] : l \in ItemLists}

NoResponse == [hasItems |-> FALSE, items |-> <<>>]

VARIABLES
    env,          \* os.environ: credentials_path, api_key, cse_id
    fileExists,   \* os.path.exists(credentials_path)
    pc,           \* position of the invocation
    tool,         \* the tool invoked
    query,        \* argument query
    num_results,  \* argument num_results
    credentials,  \* local `credentials` of the tool
    resolution,   \* outcomes and log of the resolver's library calls
    built,        \* outcome of build(...)
    steps,        \* steps the invocation has taken, in order
    calls,        \* parameters of the remote calls issued
    reply,        \* outcome of the remote call and the body it returned
    result        \* the value returned to the caller

vars == <<env, fileExists, pc, tool, query, num_results, credentials,
          resolution, built, steps, calls, reply, result>>


\* ---- values returned to the caller ---------------------------------------
NoResult == [kind |-> "none"]
ResultList(l) == [kind |-> "list", items |-> l]
Error(msg) == [kind |-> "error", error |-> msg]
\* an exception that leaves the tool
Propagated(exc) == [kind |-> "raised", class |-> exc.class]

\* ---- get_google_credentials ----------------------------------------------
NoCredential == [kind |-> "None", value |-> ""]
ServiceAccountCredential(path) == [kind |-> "ServiceAccount", value |-> path]
ApiKeyCredential(key) == [kind |-> "ApiKey", value |-> key]
DefaultCredential == [kind |-> "Default", value |-> "adc"]

NotCredentials_never(c) == FALSE

\* `if not credentials`: None is falsy, a credentials object is truthy, a
\* string is truthy when non-empty
NotCredentials(c) == c.kind = "None" \/ (c.kind = "ApiKey" /\ c.value = "")

IsApiKey_any(c) == c.kind # "None"

\* isinstance(credentials, str)
IsApiKey(c) == c.kind = "ApiKey"

Resolved(c, l) == [exc |-> Ok, cred |-> c, log |-> l]
ResolveRaised(x, l) == [exc |-> x, cred |-> NoCredential, log |-> l]

\* steps 2 and 3 of the resolver, after the service-account step logged l
KeyOrDefault(e, disc, l) ==
    IF Truthy(e.api_key)
    THEN Resolved(ApiKeyCredential(e.api_key[1]), l)
    ELSE IF disc.ok
         THEN Resolved(DefaultCredential, l \o <<"default">>)
         ELSE IF disc.class = "DefaultCredentialsError"
              THEN Resolved(NoCredential, l \o <<"default", "error">>)
              ELSE ResolveRaised(disc, l \o <<"default">>)

get_google_credentials_keyfirst(e, exists, load, disc) ==
    IF Truthy(e.api_key)
    THEN Resolved(ApiKeyCredential(e.api_key[1]), <<>>)
    ELSE IF Truthy(e.credentials_path) /\ exists /\ load.ok
         THEN Resolved(ServiceAccountCredential(e.credentials_path[1]), <<"load">>)
         ELSE KeyOrDefault(e, disc, <<>>)

\* e: the environment, exists: os.path.exists(credentials_path),
\* load: outcome of from_service_account_file, disc: outcome of default()
get_google_credentials(e, exists, load, disc) ==
    IF Truthy(e.credentials_path) /\ exists
    THEN IF load.ok
         THEN Resolved(ServiceAccountCredential(e.credentials_path[1]), <<"load">>)
         ELSE KeyOrDefault(e, disc, <<"load", "warning">>)
    ELSE KeyOrDefault(e, disc, <<>>)

\* ---- the parts in which the three search tools differ --------------------
MaxResults(t) == IF t = "general" THEN MaxGeneral ELSE MaxWebImage

Clamp_none(t, n) == n

\* num=min(num_results, 10) resp. num=min(num_results, 5)
Clamp(t, n) == Min(n, MaxResults(t))

\* searchType='web', searchType='image', or no searchType parameter
SearchType(t) == IF t = "general" THEN None ELSE Some(t)

SourceLabel(t) ==
    CASE t = "general" -> "Google Custom Search"
      [] t = "web"     -> "Google Web Search"
      [] t = "image"   -> "Google Image Search"

CseMissingMessage_generic(t) == <<"search engine not configured">>

CseMissingMessage(t) ==
    IF t = "general"
    THEN <<"GOOGLE_CSE_ID", " environment variable not set", " for Custom Search API">>
    ELSE <<"GOOGLE_CSE_ID", " environment variable not set">>

NotImplementedMessage(t) ==
    IF t = "general"
    THEN <<"Service account authentication not yet implemented", " for search API">>
    ELSE <<"Service account authentication not yet implemented">>

NoCredentialsMessage == <<"No Google credentials available">>

MapItem_typo(t, item) ==
    IF t = "image"
    THEN [title |-> Get(item, "title", ""), link |-> Get(item, "link", ""),
          image |-> Get(item, "image", EmptyMapping), source |-> SourceLabel("web")]
    ELSE [title |-> Get(item, "link", ""), link |-> Get(item, "link", ""),
          snippet |-> Get(item, "snippet", ""), source |-> SourceLabel(t)]

\* the dict built for one item of the response
MapItem(t, item) ==
    IF t = "image"
    THEN [title |-> Get(item, "title", ""), link |-> Get(item, "link", ""),
          image |-> Get(item, "image", EmptyMapping), source |-> SourceLabel(t)]
    ELSE [title |-> Get(item, "title", ""), link |-> Get(item, "link", ""),
          snippet |-> Get(item, "snippet", ""), source |-> SourceLabel(t)]

\* items = results.get('items', []); return [ {...} for item in items ]
MapResponse(t, body) ==
    LET items == IF body.hasItems THEN body.items ELSE <<>>
    IN  ResultList([i \in 1..Len(items) |-> MapItem(t, items[i])])

Handle_httponly(exc) ==
    IF exc.class = "HttpError"
    THEN Error(<<"Google API error: ", exc.text>>)
    ELSE Propagated(exc)

Handle_generic(exc) == Error(<<"Unexpected error: ", exc.text>>)

\* except HttpError as e: ... / except Exception as e: ...
Handle(exc) ==
    IF exc.class = "HttpError"
    THEN Error(<<"Google API error: ", exc.text>>)
    ELSE Error(<<"Unexpected error: ", exc.text>>)

\* ---- get_search_health ------------------------------------------------------
HealthReport(e, c) ==
    [kind |-> "health",
     status |-> IF NotCredentials(c) THEN "unhealthy" ELSE "healthy",
     credentials_available |-> ~NotCredentials(c),
     search_engine_id_set |-> Bool(e.cse_id),
     environment_variables |->
        [GOOGLE_APPLICATION_CREDENTIALS |-> e.credentials_path,
         GOOGLE_API_KEY |-> IF Truthy(e.api_key) THEN Some("***") ELSE None,
         GOOGLE_CSE_ID |-> e.cse_id]]

get_search_health_echo(e, exists, load, disc) ==
    LET r == get_google_credentials(e, exists, load, disc)
    IN  IF r.exc.ok
        THEN [HealthReport(e, r.cred) EXCEPT
                 !.environment_variables.GOOGLE_API_KEY = e.api_key]
        ELSE Propagated(r.exc)

\* the tool has no try block: an exception of the resolver leaves it
get_search_health(e, exists, load, disc) ==
    LET r == get_google_credentials(e, exists, load, disc)
    IN  IF r.exc.ok THEN HealthReport(e, r.cred) ELSE Propagated(r.exc)

\* ---- the state machine -------------------------------------------------------
NoResolution == [load |-> Ok, disc |-> Ok, log |-> <<>>]

Init ==
    /\ env \in [credentials_path : PathValues, api_key : KeyValues, cse_id : CseValues]
    /\ fileExists \in BOOLEAN
    /\ fileExists => Truthy(env.credentials_path)
    /\ pc = "idle"
    /\ tool = "general"
    /\ query = ""
    /\ num_results = 10
    /\ credentials = NoCredential
    /\ resolution = NoResolution
    /\ built = "no"
    /\ steps = <<>>
    /\ calls = <<>>
    /\ reply = [outcome |-> Ok, body |-> NoResponse]
    /\ result = NoResult

\* the host calls one of the search tools
Invoke ==
    /\ pc = "idle"
    /\ \E t \in SearchTools, q \in Queries, n \in NumResultsValues :
          /\ tool' = t
          /\ query' = q
          /\ num_results' = n
    /\ pc' = "credentials"
    /\ UNCHANGED <<env, fileExists, credentials, resolution, built, steps,
                   calls, reply, result>>

\* credentials = get_google_credentials(); if not credentials: return ...;
\* and the else branch of `if isinstance(credentials, str)`
StepCredentials ==
    /\ pc = "credentials"
    /\ \E load \in LoadOutcomes, disc \in DiscoveryOutcomes :
          LET r == get_google_credentials(env, fileExists, load, disc)
          IN  /\ resolution' = [load |-> load, disc |-> disc, log |-> r.log]
              /\ credentials' = r.cred
              /\ steps' = Append(steps, "resolve")
              /\ IF ~r.exc.ok
                 THEN pc' = "done" /\ result' = Handle(r.exc)
                 ELSE IF NotCredentials(r.cred)
                 THEN pc' = "done" /\ result' = Error(NoCredentialsMessage)
                 ELSE IF IsApiKey(r.cred)
                 THEN pc' = "build" /\ result' = result
                 ELSE pc' = "done" /\ result' = Error(NotImplementedMessage(tool))
    /\ UNCHANGED <<env, fileExists, tool, query, num_results, built, calls, reply>>

\* service = build("customsearch", "v1", developerKey=credentials)
StepBuild ==
    /\ pc = "build"
    /\ \E b \in BuildOutcomes :
          IF b.ok
          THEN built' = "ok" /\ pc' = "cse" /\ result' = result
          ELSE built' = "failed" /\ pc' = "done" /\ result' = Handle(b)
    /\ steps' = Append(steps, "build")
    /\ UNCHANGED <<env, fileExists, tool, query, num_results, credentials,
                   resolution, calls, reply>>

\* search_engine_id = os.getenv('GOOGLE_CSE_ID'); if search_engine_id: ... else: return ...
StepSearchEngineId ==
    /\ pc = "cse"
    /\ steps' = Append(steps, "cse")
    /\ IF Truthy(env.cse_id)
       THEN pc' = "call" /\ result' = result
       ELSE pc' = "done" /\ result' = Error(CseMissingMessage(tool))
    /\ UNCHANGED <<env, fileExists, tool, query, num_results, credentials,
                   resolution, built, calls, reply>>

\* results = service.list(q=..., cx=..., num=..., [searchType=...]).execute()
\* and the mapping of the items, or the handler of the exception
StepRemoteCall ==
    /\ pc = "call"
    /\ steps' = Append(steps, "call")
    /\ calls' = Append(calls, [q |-> query, cx |-> env.cse_id[1],
                               num |-> Clamp(tool, num_results),
                               searchType |-> SearchType(tool)])
    /\ \/ \E body \in Responses :
             /\ reply' = [outcome |-> Ok, body |-> body]
             /\ result' = MapResponse(tool, body)
       \/ \E x \in CallFailures :
             /\ reply' = [outcome |-> x, body |-> NoResponse]
             /\ result' = Handle(x)
    /\ pc' = "done"
    /\ UNCHANGED <<env, fileExists, tool, query, num_results, credentials,
                   resolution, built>>

\* the host calls get_search_health
Health ==
    /\ pc = "idle"
    /\ tool' = "health"
    /\ \E load \in LoadOutcomes, disc \in DiscoveryOutcomes :
          LET r == get_google_credentials(env, fileExists, load, disc)
          IN  /\ resolution' = [load |-> load, disc |-> disc, log |-> r.log]
              /\ credentials' = r.cred
              /\ result' = get_search_health(env, fileExists, load, disc)
    /\ steps' = <<"resolve">>
    /\ pc' = "done"
    /\ UNCHANGED <<env, fileExists, query, num_results, built, calls, reply>>

\* the value is handed to the caller; nothing is kept between invocations
Return ==
    /\ pc = "done"
    /\ pc' = "idle"
    /\ tool' = "general"
    /\ query' = ""
    /\ num_results' = 10
    /\ credentials' = NoCredential
    /\ resolution' = NoResolution
    /\ built' = "no"
    /\ steps' = <<>>
    /\ calls' = <<>>
    /\ reply' = [outcome |-> Ok, body |-> NoResponse]
    /\ result' = NoResult
    /\ UNCHANGED <<env, fileExists>>

Next ==
    \/ Invoke
    \/ StepCredentials
    \/ StepBuild
    \/ StepSearchEngineId
    \/ StepRemoteCall
    \/ Health
    \/ Return

Spec == Init /\ [][Next]_vars

\* a tool invocation is synchronous and runs to completion: every step of a
\* started invocation is eventually taken (the library calls return or raise)
FairSpec ==
    /\ Spec
    /\ WF_vars(StepCredentials)
    /\ WF_vars(StepBuild)
    /\ WF_vars(StepSearchEngineId)
    /\ WF_vars(StepRemoteCall)

TypeOK ==
    /\ pc \in {"idle", "credentials", "build", "cse", "call", "done"}
    /\ tool \in SearchTools \cup {"health"}
    /\ result.kind \in {"none", "list", "error", "raised", "health"}


\* ---- properties ----------------------------------------------------------------
InSeq(x, s) == \E i \in 1..Len(s) : s[i] = x

Returned == pc = "done"
SearchReturned == pc = "done" /\ tool \in SearchTools
HealthReturned == pc = "done" /\ tool = "health"

\* the service-account file is set, exists and loads
ServiceAccountUsable ==
    Truthy(env.credentials_path) /\ fileExists /\ resolution.load.ok

CallFailed == calls # <<>> /\ ~reply.outcome.ok
CallSucceeded == calls # <<>> /\ reply.outcome.ok

C1_ListOrError ==
    tool \in SearchTools =>
        /\ result.kind \in {"none", "list", "error"}
        /\ pc = "done" => result.kind \in {"list", "error"}
        /\ result.kind = "error" => Len(result.error) >= 1

\* C1: every invocation of a search tool reaches its return, and what it
\* returns is a result list or an error mapping with a message, whatever step
\* failed; no exception leaves the tool.
C1_NeverRaises ==
    /\ []C1_ListOrError
    /\ (pc = "credentials") ~> (pc = "done" /\ result.kind \in {"list", "error"})

\* default discovery raised something other than the no-credentials error and
\* the tool returned an error mapping
C1_Witness ==
    /\ SearchReturned
    /\ InSeq("default", resolution.log)
    /\ resolution.disc.class = "TransportError"
    /\ result.kind = "error"

\* C2: the resolver returns the service-account credential when the file exists
\* and loads; otherwise the non-empty API key, without default discovery;
\* otherwise the default credential, or absent on the no-credentials error.
C2_ResolutionOrder ==
    InSeq("resolve", steps) =>
        /\ ServiceAccountUsable =>
              credentials = [kind |-> "ServiceAccount", value |-> env.credentials_path[1]]
        /\ (~ServiceAccountUsable /\ Truthy(env.api_key)) =>
              /\ credentials = [kind |-> "ApiKey", value |-> env.api_key[1]]
              /\ ~InSeq("default", resolution.log)
        /\ (Truthy(env.credentials_path) /\ fileExists /\ ~resolution.load.ok) =>
              InSeq("warning", resolution.log)
        /\ (~ServiceAccountUsable /\ ~Truthy(env.api_key) /\ resolution.disc.ok) =>
              credentials.kind = "Default"
        /\ (~ServiceAccountUsable /\ ~Truthy(env.api_key)
               /\ resolution.disc.class = "DefaultCredentialsError") =>
              credentials.kind = "None"

\* a loadable service-account file and a non-empty API key: the file wins
C2_Witness ==
    /\ InSeq("resolve", steps)
    /\ ServiceAccountUsable
    /\ Truthy(env.api_key)
    /\ credentials.kind = "ServiceAccount"

\* C3: the num parameter of every remote call is min(num_results, 10) for
\* general search and min(num_results, 5) for web and image search.
C3_ClampedCount ==
    \A i \in 1..Len(calls) :
        LET m == IF tool = "general" THEN 10 ELSE 5
        IN  /\ calls[i].num <= m
            /\ calls[i].num <= num_results
            /\ calls[i].num = m \/ calls[i].num = num_results

\* a web search for 100 results has sent num = 5
C3_Witness ==
    /\ calls # <<>>
    /\ tool = "web"
    /\ num_results = 100
    /\ calls[1].num = 5

\* C4 as stated: with a non-empty API key and no search-engine identifier every
\* search tool returns an error that mentions GOOGLE_CSE_ID, whatever the
\* service-account setting and the outcome of building the client.
C4_Original ==
    (SearchReturned /\ Truthy(env.api_key) /\ ~Truthy(env.cse_id)) =>
        /\ result.kind = "error"
        /\ InSeq("GOOGLE_CSE_ID", result.error)
        /\ calls = <<>>

\* C4 amended: with a non-empty API key and no search-engine identifier every
\* search tool returns an error mapping without a remote call; the message
\* mentions GOOGLE_CSE_ID when the resolver returned the API key and the client
\* was built, is the not-implemented message when a service-account file
\* loaded, and is the handler's message when building the client raised.
C4_MissingSearchEngineId ==
    (SearchReturned /\ Truthy(env.api_key) /\ ~Truthy(env.cse_id)) =>
        /\ result.kind = "error"
        /\ calls = <<>>
        /\ (~ServiceAccountUsable /\ built = "ok") =>
              InSeq("GOOGLE_CSE_ID", result.error)
        /\ ServiceAccountUsable =>
              result.error[1] = "Service account authentication not yet implemented"
        /\ built = "failed" =>
              result.error[1] \in {"Google API error: ", "Unexpected error: "}

\* API key set, identifier unset, client built: the error names the identifier
C4_Witness ==
    /\ SearchReturned
    /\ Truthy(env.api_key)
    /\ ~Truthy(env.cse_id)
    /\ built = "ok"
    /\ InSeq("cse", steps)
    /\ InSeq("GOOGLE_CSE_ID", result.error)

\* C5: with no usable service-account file, no non-empty API key and default
\* discovery raising the no-credentials error, a search tool returns exactly
\* {error: "No Google credentials available"}, without reading the
\* search-engine identifier and without a remote call.
C5_NoCredentials ==
    (SearchReturned /\ ~ServiceAccountUsable /\ ~Truthy(env.api_key)
        /\ resolution.disc.class = "DefaultCredentialsError") =>
        /\ result = [kind |-> "error", error |-> <<"No Google credentials available">>]
        /\ ~InSeq("cse", steps)
        /\ ~InSeq("build", steps)
        /\ calls = <<>>

\* a failed load, an empty key and no default credentials
C5_Witness ==
    /\ SearchReturned
    /\ InSeq("warning", resolution.log)
    /\ env.api_key = Some("")
    /\ resolution.disc.class = "DefaultCredentialsError"
    /\ result.kind = "error"
    /\ result.error = <<"No Google credentials available">>

\* C6: the health report's API-key field is "***" exactly when the key is
\* non-empty and null otherwise; the report is the same for every other
\* non-empty value of the key; with only the API key set it is healthy with
\* credentials available and search_engine_id_set telling whether the
\* identifier is set.
C6_HealthRedaction ==
    (HealthReturned /\ result.kind = "health") =>
        /\ result.environment_variables.GOOGLE_API_KEY =
              (IF env.api_key # None /\ env.api_key # Some("") THEN Some("***") ELSE None)
        /\ \A k \in KeyValues :
              (Truthy(k) /\ Truthy(env.api_key)) =>
                  get_search_health([env EXCEPT !.api_key = k], fileExists,
                                    resolution.load, resolution.disc) = result
        /\ (Truthy(env.api_key) /\ env.credentials_path = None) =>
              /\ result.status = "healthy"
              /\ result.credentials_available = TRUE
              /\ result.search_engine_id_set =
                    (env.cse_id # None /\ env.cse_id # Some(""))

\* only the API key is set and the report carries the placeholder
C6_Witness ==
    /\ HealthReturned
    /\ result.kind = "health"
    /\ env.credentials_path = None
    /\ env.api_key = Some("key-A")
    /\ env.cse_id = None
    /\ result.environment_variables.GOOGLE_API_KEY = Some("***")

\* C7 as stated: every failure of the remote call surfaces as an error whose
\* message starts with "Google API error: ".
C7_Original ==
    (SearchReturned /\ CallFailed) =>
        /\ result.kind = "error"
        /\ result.error[1] = "Google API error: "

\* C7 amended: a failure of the remote call raised as HttpError surfaces as
\* "Google API error: <details>", any other exception of the remote call as
\* "Unexpected error: <details>"; neither leaves the tool.
C7_RemoteFailure ==
    (SearchReturned /\ CallFailed) =>
        /\ result.kind = "error"
        /\ Len(result.error) = 2
        /\ result.error[2] = reply.outcome.text
        /\ reply.outcome.class = "HttpError" => result.error[1] = "Google API error: "
        /\ reply.outcome.class # "HttpError" => result.error[1] = "Unexpected error: "

\* the remote call raised HttpError and the caller got the Google API error
C7_Witness ==
    /\ SearchReturned
    /\ CallFailed
    /\ reply.outcome.class = "HttpError"
    /\ result.kind = "error"
    /\ result.error = <<"Google API error: ", "HttpError 403 quota">>

\* C8: after a successful remote call the result is a list with one entry per
\* item of the response, in order, with title, link and snippet (image for the
\* image tool) copied, a missing field replaced by "" (the empty mapping for
\* image) and source the tool's label; no items field gives the empty list.
C8_Mapping ==
    (SearchReturned /\ CallSucceeded) =>
        LET items == IF reply.body.hasItems THEN reply.body.items ELSE <<>>
            label == CASE tool = "general" -> "Google Custom Search"
                       [] tool = "web"     -> "Google Web Search"
                       [] tool = "image"   -> "Google Image Search"
        IN  /\ result.kind = "list"
            /\ Len(result.items) = Len(items)
            /\ ~reply.body.hasItems => result.items = <<>>
            /\ \A i \in 1..Len(items) :
                  LET it == items[i]
                      r == result.items[i]
                  IN  /\ r.title = (IF "title" \in DOMAIN it THEN it.title ELSE "")
                      /\ r.link = (IF "link" \in DOMAIN it THEN it.link ELSE "")
                      /\ r.source = label
                      /\ IF tool = "image"
                         THEN /\ DOMAIN r = {"title", "link", "image", "source"}
                              /\ r.image = (IF "image" \in DOMAIN it THEN it.image
                                            ELSE EmptyMapping)
                         ELSE /\ DOMAIN r = {"title", "link", "snippet", "source"}
                              /\ r.snippet = (IF "snippet" \in DOMAIN it THEN it.snippet
                                              ELSE "")

\* a general search whose response has two items, the second without title
\* and snippet
C8_Witness ==
    /\ SearchReturned
    /\ CallSucceeded
    /\ tool = "general"
    /\ reply.body.hasItems
    /\ reply.body.items = <<[title |-> "T1", link |-> "L1", snippet |-> "S1"],
                            [link |-> "L3"]>>
    /\ result.kind = "list"
    /\ Len(result.items) = 2
    /\ result.items[2].title = ""

\* C9: the list a search tool returns has at most 10 entries for general
\* search and at most 5 for web and image search, for every num_results and
\* every response.
C9_BoundedResults ==
    (SearchReturned /\ result.kind = "list") =>
        Len(result.items) <= (IF tool = "general" THEN 10 ELSE 5)

\* C10: the steps of an invocation are resolve, build, read the identifier,
\* remote call, in this order and each at most once; the endpoint is called at
\* most once, and only with an ApiKeyCredential and the identifier set; a
\* service-account or default credential gives the not-implemented error
\* without a call; a failed call is followed by the return of its error.
C10_Order ==
    tool \in SearchTools =>
        /\ Len(steps) <= 4
        /\ \A i \in 1..Len(steps) : steps[i] = <<"resolve", "build", "cse", "call">>[i]
        /\ Len(calls) <= 1
        /\ Len(calls) = Cardinality({i \in 1..Len(steps) : steps[i] = "call"})
        /\ calls # <<>> => credentials.kind = "ApiKey" /\ Truthy(env.cse_id)
        /\ (pc = "done" /\ credentials.kind \in {"ServiceAccount", "Default"}) =>
              /\ result.kind = "error"
              /\ result.error[1] = "Service account authentication not yet implemented"
              /\ calls = <<>>
        /\ CallFailed => pc = "done" /\ result.kind = "error" /\ Len(calls) = 1

\* a default credential was resolved and the tool returned the stub's error
C10_Witness ==
    /\ SearchReturned
    /\ credentials.kind = "Default"
    /\ result.kind = "error"
    /\ result.error[1] = "Service account authentication not yet implemented"
    /\ calls = <<>>

====
